---- MODULE Spec2Model ----
(***************************************************************************)
(* ghstats2: the Parquet-backed statistics store (storage.py), the records *)
(* it persists (models.py), the GitHub client (github_client.py) and the    *)
(* collection run (collector.py).                                           *)
(*                                                                          *)
(* The state of the store is the file at StatsStorage.data_path together    *)
(* with the last call made on the storage object, the store it found, and   *)
(* what the call returned.  One action per public operation.                *)
(*                                                                          *)
(* The state of the client is its connection and the _request call in       *)
(* progress, one action per step of the retry loop.  A collect_all run goes *)
(* repository by repository and ends in one upsert.  The record builder and *)
(* get_releases are functions of the responses; calc holds their last       *)
(* evaluation.                                                              *)
(***************************************************************************)
EXTENDS Integers, Sequences, FiniteSets, TLC

(* ------------------------------ bounds --------------------------------- *)

\* record dates are date(2024, 1, d) for d in 1..MaxDate
MaxDate == 2

\* longest list of records handed to one upsert call
MaxBatch == 2

\* largest max_retries a _request call is given; 3 is the default
MaxRetries == 3

\* most rows the modelled file holds
MaxRows == 3

\* the days of traffic a response reports are date(2024, 1, d) for d in 1..MaxDay
MaxDay == 3

\* longest list of items in one API response
MaxItems == 2

(* ------------------------------ values --------------------------------- *)

\* Python's None in a nullable Int64 column (real values are >= 0)
None == -1

\* Python's None passed for an optional str argument
NoArg == "<None>"

\* the repositories collected, as (owner, name)
Repos == { <<"a", "y">>, <<"b", "x">> }

\* lexicographic order of the strings that occur in the sort columns
StrOrder == <<"a", "b", "x", "y">>

StrRank(s) == CHOOSE i \in DOMAIN StrOrder : StrOrder[i] = s

\* ISO spelling of date(2024, 1, d), indexed by d
DateStr == <<"2024-01-01", "2024-01-02", "2024-01-03", "2024-01-04">>

Dates == 1..MaxDate

\* the metric values of a day collected with views and clones
Full ==
    [clones_total |-> 3, clones_unique |-> 2, views_total |-> 10,
     views_unique |-> 5, forks_count |-> 1, stars_count |-> 4,
     collected_at |-> "t1"]

\* the metric values of a day for which a later run got views only
ViewsOnly ==
    [clones_total |-> None, clones_unique |-> None, views_total |-> 20,
     views_unique |-> 8, forks_count |-> 1, stars_count |-> 4,
     collected_at |-> "t2"]

TrafficRecord(d, repo, p) ==
    [record_date |-> d, repo_owner |-> repo[1], repo_name |-> repo[2],
     clones_total |-> p.clones_total, clones_unique |-> p.clones_unique,
     views_total |-> p.views_total, views_unique |-> p.views_unique,
     forks_count |-> p.forks_count, stars_count |-> p.stars_count,
     collected_at |-> p.collected_at]

\* the records handed to upsert: every repository on every date, and the
\* first date of every repository once more with views only
Records ==
    { TrafficRecord(d, repo, Full) : d \in Dates, repo \in Repos }
        \cup { TrafficRecord(1, repo, ViewsOnly) : repo \in Repos }

to_dict(r) ==
    [date |-> r.record_date, repo_owner |-> r.repo_owner,
     repo_name |-> r.repo_name,
     clones_total |-> r.clones_total, clones_unique |-> r.clones_unique,
     views_total |-> r.views_total, views_unique |-> r.views_unique,
     forks_count |-> r.forks_count, stars_count |-> r.stars_count,
     collected_at |-> r.collected_at]

STATS_SCHEMA ==
    <<"date", "repo_owner", "repo_name", "clones_total", "clones_unique",
      "views_total", "views_unique", "forks_count", "stars_count",
      "collected_at">>

\* every list of records of length 0..MaxBatch, duplicates of a key included
Batches == UNION { [1..n -> Records] : n \in 0..MaxBatch }

(* ---------------------------- data frames ------------------------------ *)

DataFrame(cols, rws) == [columns |-> cols, rows |-> rws]

is_empty(df) == Len(df.rows) = 0

\* pl.DataFrame(new_data, schema=STATS_SCHEMA)
new_df(new_records) ==
    DataFrame(STATS_SCHEMA, [i \in DOMAIN new_records |-> to_dict(new_records[i])])

key_cols(row) == <<row.date, row.repo_owner, row.repo_name>>

anti_join_by_value(existing, new) ==
    SelectSeq(existing, LAMBDA row : \A i \in DOMAIN new : new[i] # row)

anti_join_by_repo(existing, new) ==
    SelectSeq(existing,
              LAMBDA row : \A i \in DOMAIN new :
                  <<new[i].repo_owner, new[i].repo_name>>
                      # <<row.repo_owner, row.repo_name>>)

anti_join_keeps_all(existing, new) == existing

\* existing_df.join(new_df.select(key_cols), on=key_cols, how="anti")
anti_join(existing, new) ==
    SelectSeq(existing, LAMBDA row : \A i \in DOMAIN new : key_cols(new[i]) # key_cols(row))

vstack(top, bottom) == top \o bottom

\* row a does not come after row b under sort(["repo_owner", "repo_name", "date"])
sort_le(a, b) ==
    \/ StrRank(a.repo_owner) < StrRank(b.repo_owner)
    \/ /\ a.repo_owner = b.repo_owner
       /\ \/ StrRank(a.repo_name) < StrRank(b.repo_name)
          \/ /\ a.repo_name = b.repo_name
             /\ a.date <= b.date

is_sorted(rws) == \A i \in 1..(Len(rws) - 1) : sort_le(rws[i], rws[i + 1])

\* the frames sort(["repo_owner", "repo_name", "date"]) can return: the rows
\* in ascending order, rows that compare equal in any relative order (polars
\* promises none unless maintain_order is set)
RECURSIVE sort(_)
sort(rws) ==
    IF Len(rws) = 0
    THEN { <<>> }
    ELSE UNION { { <<rws[i]>> \o rest :
                   rest \in sort(SubSeq(rws, 1, i - 1) \o SubSeq(rws, i + 1, Len(rws))) } :
                 i \in { k \in DOMAIN rws : \A j \in DOMAIN rws : sort_le(rws[k], rws[j]) } }

(* ------------------------------ the file ------------------------------- *)

\* no file at data_path
Missing == [state |-> "missing", columns |-> <<>>, rows |-> <<>>]

\* a complete Parquet file holding df
Intact(df) == [state |-> "intact", columns |-> df.columns, rows |-> df.rows]

\* a file write_parquet was still writing when the process stopped
Partial(df, k) == [state |-> "partial", columns |-> df.columns, rows |-> SubSeq(df.rows, 1, k)]

exists(f) == f.state # "missing"

(* ---------------------------- return values ---------------------------- *)

RetNone == [kind |-> "none", n |-> 0, columns |-> <<>>, rows |-> <<>>]

RetInt(k) == [kind |-> "int", n |-> k, columns |-> <<>>, rows |-> <<>>]

RetDf(df) == [kind |-> "df", n |-> 0, columns |-> df.columns, rows |-> df.rows]

\* the call raised instead of returning
Raise == [kind |-> "raise", n |-> 0, columns |-> <<>>, rows |-> <<>>]

(* --------------------------- StatsStorage ------------------------------ *)

read_no_exists_check(f) ==
    IF f.state = "intact" THEN RetDf(DataFrame(f.columns, f.rows)) ELSE Raise

read(f) ==
    IF ~exists(f)
    THEN RetDf(DataFrame(STATS_SCHEMA, <<>>))
    ELSE IF f.state = "intact"
         THEN RetDf(DataFrame(f.columns, f.rows))
         ELSE Raise

write_sorted(df) == Intact(DataFrame(df.columns, CHOOSE s \in sort(df.rows) : TRUE))

write(df) == Intact(df)

\* upsert from line 76 on: the outcomes [file, ret] of a non-empty batch
upsert_merge(f, new_records) ==
    LET existing_df == read(f) IN
    IF existing_df.kind = "raise"
    THEN { [file |-> f, ret |-> Raise] }
    ELSE IF is_empty(existing_df)
         THEN { [file |-> write(new_df(new_records)), ret |-> RetInt(Len(new_records))] }
         ELSE { [file |-> write(DataFrame(existing_df.columns, merged)),
                 ret |-> RetInt(Len(new_records))] :
                merged \in sort(vstack(anti_join(existing_df.rows, new_df(new_records).rows),
                                       new_df(new_records).rows)) }

upsert_no_early_return(f, new_records) == upsert_merge(f, new_records)

upsert_counts_added(f, new_records) ==
    IF Len(new_records) = 0
    THEN { [file |-> f, ret |-> RetInt(0)] }
    ELSE { [file |-> o.file,
            ret |-> IF o.ret.kind = "int"
                    THEN RetInt(Len(o.file.rows) - Len(f.rows))
                    ELSE o.ret] : o \in upsert_merge(f, new_records) }

upsert(f, new_records) ==
    IF Len(new_records) = 0
    THEN { [file |-> f, ret |-> RetInt(0)] }
    ELSE upsert_merge(f, new_records)

\* Python truthiness of an optional str argument ("if repo_name:")
truthy(arg) == arg # NoArg /\ arg # ""

\* pl.lit(start_date).str.to_date()
to_date(s) == CHOOSE d \in DOMAIN DateStr : DateStr[d] = s

filter_repo_name(rws, repo_name) ==
    IF truthy(repo_name)
    THEN SelectSeq(rws, LAMBDA row : row.repo_name = repo_name)
    ELSE rws

filter_start_exclusive(rws, start_date) ==
    IF truthy(start_date)
    THEN SelectSeq(rws, LAMBDA row : row.date > to_date(start_date))
    ELSE rws

filter_start_date(rws, start_date) ==
    IF truthy(start_date)
    THEN SelectSeq(rws, LAMBDA row : row.date >= to_date(start_date))
    ELSE rws

filter_end_date(rws, end_date) ==
    IF truthy(end_date)
    THEN SelectSeq(rws, LAMBDA row : row.date <= to_date(end_date))
    ELSE rws

\* the values get_stats can return
get_stats(f, repo_name, start_date, end_date) ==
    LET df == read(f) IN
    IF df.kind = "raise"
    THEN { Raise }
    ELSE IF is_empty(df)
         THEN { df }
         ELSE { RetDf(DataFrame(df.columns, s)) :
                s \in sort(filter_end_date(
                               filter_start_date(
                                   filter_repo_name(df.rows, repo_name),
                                   start_date),
                               end_date)) }

(* ------------------------ GitHubTrafficClient -------------------------- *)

\* reset_at = None
NoTime == [year |-> 0, month |-> 0, day |-> 0, hour |-> 0, minute |-> 0, second |-> 0]

\* an exception: its class, the fixed part of its message, and the status
\* code, text and reset_at it carries
Exc(type, msg, status_code, text, reset_at) ==
    [type |-> type, msg |-> msg, status_code |-> status_code, text |-> text,
     reset_at |-> reset_at]

\* last_error = None
NoExc == Exc("None", "", 0, "", NoTime)

\* an HTTP response with its status code, the two rate-limit headers (NoArg
\* when the header is not sent), its body text and the JSON it decodes to
Response(status_code, remaining, reset, text, json) ==
    [kind |-> "response", status_code |-> status_code, remaining |-> remaining,
     reset |-> reset, text |-> text, json |-> json]

\* httpx.RequestError: connection error or timeout, no response
RequestError(text) ==
    [kind |-> "RequestError", status_code |-> 0, remaining |-> NoArg,
     reset |-> NoArg, text |-> text, json |-> ""]

\* what the server can answer to one request
Responses ==
    { Response(200, NoArg, NoArg, "", j) : j \in { "j1", "j2" } }
        \cup { Response(c, NoArg, NoArg, "b", "") : c \in { 204, 400, 401, 404 } }
        \cup { Response(403, remaining, reset, "b", "") :
                   remaining \in { NoArg, "0", "1" },
                   reset \in { NoArg, "1704067200", "1704153599", "abc" } }
        \cup { Response(500, NoArg, NoArg, "e1", ""), Response(503, NoArg, NoArg, "e2", "") }
        \cup { RequestError("timeout") }

\* the header values int() accepts, with their values
IntValue == ("0" :> 0) @@ ("1" :> 1) @@ ("1704067200" :> 1704067200)
                @@ ("1704153599" :> 1704153599)

\* response.headers.get(name, default)
headers_get(value, default) == IF value = NoArg THEN default ELSE value

fromtimestamp_local(ts) ==
    LET t == ts + 3600
        z == (t \div 86400) + 719468
        era == z \div 146097
        doe == z - era * 146097
        yoe == (doe - doe \div 1460 + doe \div 36524 - doe \div 146096) \div 365
        doy == doe - (365 * yoe + yoe \div 4 - yoe \div 100)
        mp == (5 * doy + 2) \div 153
        m == IF mp < 10 THEN mp + 3 ELSE mp - 9
        secs == t % 86400
    IN  [year |-> yoe + era * 400 + (IF m <= 2 THEN 1 ELSE 0),
         month |-> m,
         day |-> doy - (153 * mp + 2) \div 5 + 1,
         hour |-> secs \div 3600,
         minute |-> (secs % 3600) \div 60,
         second |-> secs % 60]

\* datetime.fromtimestamp(ts, tz=UTC): the UTC calendar date and time of the
\* instant ts seconds after 1970-01-01T00:00:00Z
fromtimestamp(ts) ==
    LET z == (ts \div 86400) + 719468
        era == z \div 146097
        doe == z - era * 146097
        yoe == (doe - doe \div 1460 + doe \div 36524 - doe \div 146096) \div 365
        doy == doe - (365 * yoe + yoe \div 4 - yoe \div 100)
        mp == (5 * doy + 2) \div 153
        m == IF mp < 10 THEN mp + 3 ELSE mp - 9
        secs == ts % 86400
    IN  [year |-> yoe + era * 400 + (IF m <= 2 THEN 1 ELSE 0),
         month |-> m,
         day |-> doy - (153 * mp + 2) \div 5 + 1,
         hour |-> secs \div 3600,
         minute |-> (secs % 3600) \div 60,
         second |-> secs % 60]

\* what one pass of the loop body does with what the request gave:
\* return the JSON, raise, or note last_error and sleep before the next pass
Returns(json) == [act |-> "return", json |-> json, exc |-> NoExc]

Raises(exc) == [act |-> "raise", json |-> "", exc |-> exc]

Retries(exc) == [act |-> "retry", json |-> "", exc |-> exc]

\* lines 115-125: a 403 response
forbidden(resp) ==
    LET remaining == headers_get(resp.remaining, "1") IN
    IF remaining = "0"
    THEN LET reset == headers_get(resp.reset, "0") IN
         IF reset \in DOMAIN IntValue
         THEN Raises(Exc("RateLimitError", "Rate limit exceeded", 0, "",
                         fromtimestamp(IntValue[reset])))
         ELSE Raises(Exc("ValueError", "invalid literal for int()", 0, reset, NoTime))
    ELSE Raises(Exc("AuthenticationError", "Access forbidden", 0, "", NoTime))

handle_retries_4xx(resp) ==
    IF resp.kind = "RequestError"
    THEN Retries(Exc("GitHubAPIError", "Request failed", 0, resp.text, NoTime))
    ELSE IF resp.status_code = 200 THEN Returns(resp.json)
    ELSE IF resp.status_code = 401
         THEN Raises(Exc("AuthenticationError", "Invalid or expired token", 0, "", NoTime))
    ELSE IF resp.status_code = 403 THEN forbidden(resp)
    ELSE IF resp.status_code = 404
         THEN Raises(Exc("NotFoundError", "Repository not found", 0, "", NoTime))
    ELSE IF resp.status_code >= 400
         THEN Retries(Exc("GitHubAPIError", "Server error", resp.status_code, resp.text, NoTime))
    ELSE Raises(Exc("GitHubAPIError", "API error", resp.status_code, resp.text, NoTime))

\* lines 107-142: the body of the retry loop
handle(resp) ==
    IF resp.kind = "RequestError"
    THEN Retries(Exc("GitHubAPIError", "Request failed", 0, resp.text, NoTime))
    ELSE IF resp.status_code = 200 THEN Returns(resp.json)
    ELSE IF resp.status_code = 401
         THEN Raises(Exc("AuthenticationError", "Invalid or expired token", 0, "", NoTime))
    ELSE IF resp.status_code = 403 THEN forbidden(resp)
    ELSE IF resp.status_code = 404
         THEN Raises(Exc("NotFoundError", "Repository not found", 0, "", NoTime))
    ELSE IF resp.status_code >= 500
         THEN Retries(Exc("GitHubAPIError", "Server error", resp.status_code, resp.text, NoTime))
    ELSE Raises(Exc("GitHubAPIError", "API error", resp.status_code, resp.text, NoTime))

\* what a _request call has come to: nothing yet, a return value, an exception
NoOutcome == [kind |-> "none", json |-> "", exc |-> NoExc]

Returned(json) == [kind |-> "return", json |-> json, exc |-> NoExc]

Raised(exc) == [kind |-> "raise", json |-> "", exc |-> exc]

\* a _request call: where it is, its max_retries, the loop variable, the HTTP
\* requests it has issued, the delays it has slept, last_error, what the
\* requests gave, and its outcome
Request(pc, max_retries, attempt, requests, delays, last_error, log, outcome) ==
    [pc |-> pc, max_retries |-> max_retries, attempt |-> attempt,
     requests |-> requests, delays |-> delays, last_error |-> last_error,
     log |-> log, outcome |-> outcome]

(* ------------------------------ collector ------------------------------ *)

\* the "timestamp" GitHub gives the traffic of date(2024, 1, d), indexed by d
Timestamp ==
    <<"2024-01-01T00:00:00Z", "2024-01-02T00:00:00Z", "2024-01-03T00:00:00Z",
      "2024-01-04T00:00:00Z">>

Days == 1..MaxDay

\* one element of the "views" or "clones" list of a traffic response; a key
\* the JSON object does not have is NoArg (timestamp) or None (count, uniques)
Item(timestamp, count, uniques) ==
    [timestamp |-> timestamp, count |-> count, uniques |-> uniques]

\* the items a response can hold: a day with its counts, a day with the
\* counts left out, and an item that lacks its timestamp
Items ==
    { Item(Timestamp[d], c[1], c[2]) : d \in Days, c \in { <<None, None>>, <<7, 3>> } }
        \cup { Item(NoArg, 7, 3) }

ItemLists == UNION { [1..n -> Items] : n \in 0..MaxItems }

\* RepoStats
RepoStats(forks_count, stargazers_count) ==
    [forks_count |-> forks_count, stargazers_count |-> stargazers_count]

\* item.get(key, default) for a str value and for an int value
get_str(value, default) == IF value = NoArg THEN default ELSE value

get_int(value, default) == IF value = None THEN default ELSE value

\* ts.split("T")[0] and published[:10]: the date part of a timestamp
date_part(ts) ==
    IF \E d \in DOMAIN Timestamp : Timestamp[d] = ts
    THEN DateStr[CHOOSE d \in DOMAIN Timestamp : Timestamp[d] = ts]
    ELSE ts

\* date.fromisoformat(s): the date, or ValueError
fromisoformat(s) ==
    IF \E d \in DOMAIN DateStr : DateStr[d] = s
    THEN [ok |-> TRUE, date |-> CHOOSE d \in DOMAIN DateStr : DateStr[d] = s]
    ELSE [ok |-> FALSE, date |-> 0]

\* what the building of the records comes to: the records, or an exception
Built(records) == [kind |-> "records", records |-> records, exc |-> NoExc]

Failed(exc) == [kind |-> "raise", records |-> <<>>, exc |-> exc]

\* date_records is a dict keyed by date: at most one entry per date, in the
\* order of first insertion
has_key(date_records, record_date) ==
    \E i \in DOMAIN date_records : date_records[i].record_date = record_date

index_of(date_records, record_date) ==
    CHOOSE i \in DOMAIN date_records : date_records[i].record_date = record_date

\* date_records[record_date] = record
set_item(date_records, record) ==
    IF has_key(date_records, record.record_date)
    THEN [date_records EXCEPT ![index_of(date_records, record.record_date)] = record]
    ELSE Append(date_records, record)

\* lines 46-55: the record of a view day
view_day(date_records, record_date, item, repo, stats, collected_at) ==
    set_item(date_records,
             TrafficRecord(record_date, repo,
                           [clones_total |-> None, clones_unique |-> None,
                            views_total |-> get_int(item.count, 0),
                            views_unique |-> get_int(item.uniques, 0),
                            forks_count |-> stats.forks_count,
                            stars_count |-> stats.stargazers_count,
                            collected_at |-> collected_at]))

clone_day_replaces(date_records, record_date, item, repo, stats, collected_at) ==
    set_item(date_records,
             TrafficRecord(record_date, repo,
                           [clones_total |-> get_int(item.count, 0),
                            clones_unique |-> get_int(item.uniques, 0),
                            views_total |-> None, views_unique |-> None,
                            forks_count |-> stats.forks_count,
                            stars_count |-> stats.stargazers_count,
                            collected_at |-> collected_at]))

clone_day_without_snapshot(date_records, record_date, item, repo, stats, collected_at) ==
    IF has_key(date_records, record_date)
    THEN [date_records EXCEPT
              ![index_of(date_records, record_date)].clones_total = get_int(item.count, 0),
              ![index_of(date_records, record_date)].clones_unique = get_int(item.uniques, 0)]
    ELSE set_item(date_records,
                  TrafficRecord(record_date, repo,
                                [clones_total |-> get_int(item.count, 0),
                                 clones_unique |-> get_int(item.uniques, 0),
                                 views_total |-> None, views_unique |-> None,
                                 forks_count |-> None, stars_count |-> None,
                                 collected_at |-> collected_at]))

\* lines 62-75: a clone day updates the record of its date or adds one
clone_day(date_records, record_date, item, repo, stats, collected_at) ==
    IF has_key(date_records, record_date)
    THEN [date_records EXCEPT
              ![index_of(date_records, record_date)].clones_total = get_int(item.count, 0),
              ![index_of(date_records, record_date)].clones_unique = get_int(item.uniques, 0)]
    ELSE set_item(date_records,
                  TrafficRecord(record_date, repo,
                                [clones_total |-> get_int(item.count, 0),
                                 clones_unique |-> get_int(item.uniques, 0),
                                 views_total |-> None, views_unique |-> None,
                                 forks_count |-> stats.forks_count,
                                 stars_count |-> stats.stargazers_count,
                                 collected_at |-> collected_at]))

\* lines 43-55: for item in views.items
RECURSIVE views_loop(_, _, _, _, _)
views_loop(items, date_records, repo, stats, collected_at) ==
    IF items = <<>>
    THEN Built(date_records)
    ELSE LET ts == get_str(Head(items).timestamp, "")
             record_date == fromisoformat(date_part(ts))
         IN  IF ~record_date.ok
             THEN Failed(Exc("ValueError", "Invalid isoformat string", 0, date_part(ts), NoTime))
             ELSE views_loop(Tail(items),
                             view_day(date_records, record_date.date, Head(items),
                                      repo, stats, collected_at),
                             repo, stats, collected_at)

\* lines 58-75: for item in clones.items
RECURSIVE clones_loop(_, _, _, _, _)
clones_loop(items, date_records, repo, stats, collected_at) ==
    IF items = <<>>
    THEN Built(date_records)
    ELSE LET ts == get_str(Head(items).timestamp, "")
             record_date == fromisoformat(date_part(ts))
         IN  IF ~record_date.ok
             THEN Failed(Exc("ValueError", "Invalid isoformat string", 0, date_part(ts), NoTime))
             ELSE clones_loop(Tail(items),
                              clone_day(date_records, record_date.date, Head(items),
                                        repo, stats, collected_at),
                              repo, stats, collected_at)

\* lines 40-77 of collect_repo_stats: the records built from the three
\* responses, list(date_records.values())
build_records(views, clones, stats, repo, collected_at) ==
    LET from_views == views_loop(views, <<>>, repo, stats, collected_at) IN
    IF from_views.kind = "raise"
    THEN from_views
    ELSE clones_loop(clones, from_views.records, repo, stats, collected_at)

\* what a _request call comes to when resp is what its last attempt got:
\* the JSON, the exception raised on it, or last_error once the loop is over
request_ending_on(resp) ==
    LET h == handle(resp) IN
    IF h.act = "return" THEN Returned(h.json) ELSE Raised(h.exc)

\* the responses the fetches of a collection run end on
FetchResponses ==
    { resp \in Responses :
          /\ resp.kind = "response"
          /\ \/ resp.status_code \in { 200, 404, 500 }
             \/ /\ resp.status_code = 403
                /\ resp.remaining = "0"
                /\ resp.reset \in { "1704067200", "abc" } }

\* response.json() of the traffic/views, traffic/clones and repository
\* responses: data.get("views", []), data.get("clones", []) and the counts
views_of(json) ==
    IF json = "j1"
    THEN <<Item(Timestamp[1], 7, 3), Item(Timestamp[2], 7, 3)>>
    ELSE <<Item(Timestamp[1], None, None)>>

clones_of(json) ==
    IF json = "j1" THEN <<Item(Timestamp[2], 7, 3)>> ELSE <<>>

stats_of(json) == IF json = "j1" THEN RepoStats(1, 4) ELSE RepoStats(0, 0)

\* the exceptions "except GitHubAPIError" catches
GitHubAPIErrors ==
    { "GitHubAPIError", "RateLimitError", "AuthenticationError", "NotFoundError" }

\* what collect_repo_stats comes to for one repository: its records, or the
\* exception that leaves it
Collected(records, caught) == [kind |-> "records", records |-> records, exc |-> caught]

\* lines 29-83.  views, clones and stats are what the three tasks of
\* asyncio.gather come to; gather raises the exception of the task that
\* fails first, any of those that fail
collect_repo_stats(views, clones, stats, repo, collected_at) ==
    LET failed == { t \in { views, clones, stats } : t.kind = "raise" } IN
    IF failed # {}
    THEN { IF t.exc.type \in GitHubAPIErrors
           THEN Collected(<<>>, t.exc)
           ELSE Failed(t.exc) : t \in failed }
    ELSE { build_records(views_of(views.json), clones_of(clones.json),
                         stats_of(stats.json), repo, collected_at) }

\* line 30: datetime.now(UTC).isoformat() at the k-th collect_repo_stats
\* call of a run
now(k) == <<"t1", "t2">>[k]

\* what the three fetches of one repository came to
Fetched(views, clones, stats) == [views |-> views, clones |-> clones, stats |-> stats]

\* max_retries: int = 3, the budget of the requests the fetches make
default_max_retries == 3

\* a task that asyncio.gather runs for the k-th repository of the run: the
\* get_views, get_clones or get_repo_stats call named fetch, where its
\* _request call is, its loop variable and last_error (both gone once the
\* call is over), and what it came to
Task(k, fetch, pc, attempt, last_error, outcome) ==
    [k |-> k, fetch |-> fetch, pc |-> pc, attempt |-> attempt,
     last_error |-> last_error, outcome |-> outcome]

\* the responses the requests of the tasks get
TaskResponses ==
    { resp \in FetchResponses :
          resp.status_code \in { 404, 500 }
              \/ (resp.status_code = 200 /\ resp.json = "j1") }

\* the lists of repositories a run is given
RepoLists ==
    { repos \in UNION { [1..n -> Repos] : n \in 0..Cardinality(Repos) } :
          \A i, j \in DOMAIN repos : i # j => repos[i] # repos[j] }

(* ------------------------------ releases ------------------------------- *)

\* one element of the releases response; a key the JSON object does not
\* have, or has with the value null, is NoArg
ReleaseItem(tag_name, published_at, name) ==
    [tag_name |-> tag_name, published_at |-> published_at, name |-> name]

ReleaseItems ==
    { ReleaseItem(tag_name, published_at, name) :
          tag_name \in { NoArg, "v1" },
          published_at \in { NoArg, "" } \cup { Timestamp[d] : d \in Days },
          name \in { NoArg, "", "n" } }

ReleaseLists == UNION { [1..n -> ReleaseItems] : n \in 0..MaxItems }

\* x or ""
or_empty(x) == IF truthy(x) THEN x ELSE ""

Release_keeps_name(item) ==
    [tag_name |-> get_str(item.tag_name, ""),
     published_at |-> fromisoformat(date_part(item.published_at)).date,
     name |-> item.name]

\* lines 216-222: Release(tag_name=..., published_at=..., name=...)
Release(item) ==
    [tag_name |-> get_str(item.tag_name, ""),
     published_at |-> fromisoformat(date_part(item.published_at)).date,
     name |-> or_empty(item.name)]

\* lines 211-224: for item in data
RECURSIVE get_releases(_)
get_releases(data) ==
    IF data = <<>>
    THEN <<>>
    ELSE IF truthy(Head(data).published_at)
         THEN <<Release(Head(data))>> \o get_releases(Tail(data))
         ELSE get_releases(Tail(data))

(* ------------------------------- state --------------------------------- *)

\* no _request call is in progress
NoRequest == Request("idle", 0, 0, 0, <<>>, NoExc, <<>>, NoOutcome)

\* a collect_all run: where it is, its repositories, the index of the one
\* being collected, all_records, what collect_repo_stats gave for each
\* repository collected so far and what its three fetches came to, the
\* exception that ended the run, the count returned, and the request tasks
\* that asyncio.gather has started
Run(pc, repos, i, all_records, results, exc, count) ==
    [pc |-> pc, repos |-> repos, i |-> i, all_records |-> all_records,
     results |-> results, exc |-> exc, count |-> count,
     fetched |-> <<>>, tasks |-> {}]

\* no collect_all run is in progress
NoRun == Run("idle", <<>>, 0, <<>>, <<>>, NoExc, 0)

\* no function has been evaluated
Calc(fn, a, b, out) == [fn |-> fn, a |-> a, b |-> b, out |-> out]

NoCalc == Calc("none", <<>>, <<>>, Built(<<>>))

VARIABLES
    file,   \* the file at data_path
    pre,    \* the file as the call in progress found it
    op,     \* the call in progress: its name and arguments, or Idle
    ret,    \* what the call in progress hands back to its caller
    client, \* GitHubTrafficClient._client: "None", "open" or "closed"
    req,    \* the _request call in progress on the client
    run,    \* the collect_all run in progress
    calc    \* the last evaluation of a function of the client or collector

vars == <<file, pre, op, ret, client, req, run, calc>>

\* the state of the store
storeVars == <<file, pre, op, ret>>

\* the state outside the store
restVars == <<client, req, run, calc>>

Call(name, new_records, repo_name, start_date, end_date) ==
    [name |-> name, new_records |-> new_records, repo_name |-> repo_name,
     start_date |-> start_date, end_date |-> end_date]

NameArgs == { NoArg, "" } \cup { repo[2] : repo \in Repos }

DateArgs == { NoArg, "" } \cup { DateStr[d] : d \in Dates }

\* no call on the storage object is in progress
Idle == Call("idle", <<>>, NoArg, NoArg, NoArg)

\* StatsStorage(data_path): the path names no file yet, or a file without rows
InitStore ==
    /\ file \in { Missing, Intact(DataFrame(STATS_SCHEMA, <<>>)) }
    /\ pre = file
    /\ op = Idle
    /\ ret = RetNone

\* GitHubTrafficClient(token): no connection yet, no request, no run
InitRest ==
    /\ client = "None"
    /\ req = NoRequest
    /\ run = NoRun
    /\ calc = NoCalc

Init == InitStore /\ InitRest

Upsert ==
    /\ op = Idle
    /\ \E new_records \in Batches :
           \E o \in upsert(file, new_records) :
               /\ Len(o.file.rows) <= MaxRows
               /\ file' = o.file
               /\ pre' = file
               /\ op' = Call("upsert", new_records, NoArg, NoArg, NoArg)
               /\ ret' = o.ret
    /\ UNCHANGED restVars

GetStats ==
    /\ op = Idle
    /\ \E repo_name \in NameArgs, start_date \in DateArgs, end_date \in DateArgs :
           \E r \in get_stats(file, repo_name, start_date, end_date) :
               /\ ret' = r
               /\ pre' = file
               /\ op' = Call("get_stats", <<>>, repo_name, start_date, end_date)
               /\ UNCHANGED file
    /\ UNCHANGED restVars

Read ==
    /\ op = Idle
    /\ ret' = read(file)
    /\ pre' = file
    /\ op' = Call("read", <<>>, NoArg, NoArg, NoArg)
    /\ UNCHANGED file
    /\ UNCHANGED restVars

\* the caller takes the result; the storage object is ready for the next call
Return ==
    /\ op # Idle
    /\ op' = Idle
    /\ pre' = file
    /\ ret' = RetNone
    /\ UNCHANGED file
    /\ UNCHANGED restVars

Next == Upsert \/ GetStats \/ Read \/ Return

Spec == Init /\ [][Next]_vars

\* the files an upsert call can leave behind when the process is stopped
\* somewhere inside it: write_parquet writes data_path itself, so stopping
\* inside the write leaves a file that has some of the row groups and no footer
upsert_interrupted(f, new_records) ==
    { f } \cup
    UNION { { o.file } \cup
            ( IF o.file # f
              THEN { Partial(o.file, k) : k \in 0..Len(o.file.rows) }
              ELSE {} ) : o \in upsert(f, new_records) }

UpsertInterrupted ==
    /\ op = Idle
    /\ \E new_records \in Batches :
           \E g \in upsert_interrupted(file, new_records) :
               /\ Len(g.rows) <= MaxRows
               /\ file' = g
               /\ pre' = file
               /\ op' = Call("upsert_interrupted", new_records, NoArg, NoArg, NoArg)
               /\ ret' = RetNone
    /\ UNCHANGED restVars

NextInterrupt == Next \/ UpsertInterrupted

SpecInterrupt == Init /\ [][NextInterrupt]_vars

\* write(df) called directly, df being a frame of the store schema
Write ==
    /\ op = Idle
    /\ \E new_records \in Batches :
           /\ file' = write(new_df(new_records))
           /\ pre' = file
           /\ op' = Call("write", new_records, NoArg, NoArg, NoArg)
           /\ ret' = RetNone
    /\ UNCHANGED restVars

NextPersist == Write \/ Read \/ Return

SpecPersist == Init /\ [][NextPersist]_vars

(* ------------------- GitHubTrafficClient: one request ------------------ *)

\* __aenter__: a new httpx.AsyncClient
Enter ==
    /\ client # "open"
    /\ req.pc = "idle"
    /\ client' = "open"
    /\ UNCHANGED <<req, run, calc, storeVars>>

\* __aexit__, reached when the body of the async with block is left, by its
\* end or by an exception: the httpx client is closed
Exit ==
    /\ client = "open"
    /\ req.pc \in { "idle", "done" }
    /\ client' = "closed"
    /\ UNCHANGED <<req, run, calc, storeVars>>

StartRequest_unchecked ==
    /\ req.pc = "idle"
    /\ \E max_retries \in 0..MaxRetries :
           req' = Request("loop", max_retries, 0, 0, <<>>, NoExc, <<>>, NoOutcome)
    /\ UNCHANGED <<client, run, calc, storeVars>>

\* lines 100-103: _request is called
StartRequest ==
    /\ req.pc = "idle"
    /\ \E max_retries \in 0..MaxRetries :
           req' = IF client = "None"
                  THEN Request("done", max_retries, 0, 0, <<>>, NoExc, <<>>,
                               Raised(Exc("RuntimeError", "Client not initialized", 0, "", NoTime)))
                  ELSE Request("loop", max_retries, 0, 0, <<>>, NoExc, <<>>, NoOutcome)
    /\ UNCHANGED <<client, run, calc, storeVars>>

NextAttempt_one_pass_fewer ==
    /\ req.pc = "loop"
    /\ req' = IF req.attempt >= req.max_retries - 1
              THEN [req EXCEPT !.pc = "done",
                               !.outcome = Raised(IF req.last_error # NoExc
                                                  THEN req.last_error
                                                  ELSE Exc("GitHubAPIError", "Request failed after retries",
                                                           0, "", NoTime))]
              ELSE IF client = "closed"
                   THEN [req EXCEPT !.pc = "done",
                                    !.outcome = Raised(Exc("RuntimeError", "client has been closed",
                                                           0, "", NoTime))]
                   ELSE [req EXCEPT !.pc = "awaiting", !.requests = @ + 1]
    /\ UNCHANGED <<client, run, calc, storeVars>>

NextAttempt_one_pass_more ==
    /\ req.pc = "loop"
    /\ req' = IF req.attempt > req.max_retries
              THEN [req EXCEPT !.pc = "done",
                               !.outcome = Raised(IF req.last_error # NoExc
                                                  THEN req.last_error
                                                  ELSE Exc("GitHubAPIError", "Request failed after retries",
                                                           0, "", NoTime))]
              ELSE IF client = "closed"
                   THEN [req EXCEPT !.pc = "done",
                                    !.outcome = Raised(Exc("RuntimeError", "client has been closed",
                                                           0, "", NoTime))]
                   ELSE [req EXCEPT !.pc = "awaiting", !.requests = @ + 1]
    /\ UNCHANGED <<client, run, calc, storeVars>>

\* lines 105-107 and 144: the head of a loop pass; the pass issues its HTTP
\* request (a closed httpx client refuses to send), or the loop is over
NextAttempt ==
    /\ req.pc = "loop"
    /\ req' = IF req.attempt >= req.max_retries
              THEN [req EXCEPT !.pc = "done",
                               !.outcome = Raised(IF req.last_error # NoExc
                                                  THEN req.last_error
                                                  ELSE Exc("GitHubAPIError", "Request failed after retries",
                                                           0, "", NoTime))]
              ELSE IF client = "closed"
                   THEN [req EXCEPT !.pc = "done",
                                    !.outcome = Raised(Exc("RuntimeError", "client has been closed",
                                                           0, "", NoTime))]
                   ELSE [req EXCEPT !.pc = "awaiting", !.requests = @ + 1]
    /\ UNCHANGED <<client, run, calc, storeVars>>

\* lines 107-142: the request gives a response or fails; the pass returns,
\* raises, or notes last_error and goes to sleep for 2**attempt
Receive ==
    /\ req.pc = "awaiting"
    /\ \E resp \in Responses :
           LET h == handle(resp) IN
           req' = IF h.act = "return"
                  THEN [req EXCEPT !.pc = "done", !.log = Append(@, resp),
                                   !.outcome = Returned(h.json)]
                  ELSE IF h.act = "raise"
                       THEN [req EXCEPT !.pc = "done", !.log = Append(@, resp),
                                        !.outcome = Raised(h.exc)]
                       ELSE [req EXCEPT !.pc = "sleeping", !.log = Append(@, resp),
                                        !.last_error = h.exc,
                                        !.delays = Append(@, 2 ^ req.attempt)]
    /\ UNCHANGED <<client, run, calc, storeVars>>

\* asyncio.sleep is over: on to the next pass
Wake ==
    /\ req.pc = "sleeping"
    /\ req' = [req EXCEPT !.pc = "loop", !.attempt = @ + 1]
    /\ UNCHANGED <<client, run, calc, storeVars>>

\* the caller has the return value or the exception
Finish ==
    /\ req.pc = "done"
    /\ req' = NoRequest
    /\ UNCHANGED <<client, run, calc, storeVars>>

NextClient == Enter \/ Exit \/ StartRequest \/ NextAttempt \/ Receive \/ Wake \/ Finish

SpecClient == Init /\ [][NextClient]_vars

\* a pass of the loop that has been started is carried on: the request gets
\* its response or its timeout, and the sleep ends
SpecClientLive ==
    SpecClient /\ WF_vars(NextAttempt) /\ WF_vars(Receive) /\ WF_vars(Wake)

(* ------------------------------ collect_all ---------------------------- *)

\* lines 104-123: collect_all is called; with repositories to collect it
\* enters the scope of a GitHubTrafficClient
CollectAll ==
    /\ run.pc = "idle"
    /\ \E repos \in RepoLists :
           IF repos = <<>>
           THEN /\ run' = Run("done", repos, 0, <<>>, <<>>, NoExc, 0)
                /\ UNCHANGED client
           ELSE /\ run' = Run("loop", repos, 1, <<>>, <<>>, NoExc, 0)
                /\ client' = "open"
    /\ UNCHANGED <<req, calc, storeVars>>

\* lines 124-127: one pass of "for repo in repos"; an exception that
\* collect_repo_stats lets through leaves the loop
CollectRepoStats ==
    /\ run.pc = "loop"
    /\ run.i <= Len(run.repos)
    /\ \E views, clones, stats \in { request_ending_on(resp) : resp \in FetchResponses } :
           \E records \in collect_repo_stats(views, clones, stats, run.repos[run.i], now(run.i)) :
               run' = IF records.kind = "raise"
                      THEN [run EXCEPT !.pc = "raising", !.exc = records.exc,
                                       !.results = Append(@, records),
                                       !.fetched = Append(@, Fetched(views, clones, stats))]
                      ELSE [run EXCEPT !.i = @ + 1,
                                       !.all_records = @ \o records.records,
                                       !.results = Append(@, records),
                                       !.fetched = Append(@, Fetched(views, clones, stats))]
    /\ UNCHANGED <<client, req, calc, storeVars>>

\* the end of the "async with" block, left by the end of the loop or by an
\* exception: __aexit__ closes the client
ExitClient ==
    /\ \/ run.pc = "loop" /\ run.i > Len(run.repos)
       \/ run.pc = "raising"
    /\ client' = "closed"
    /\ run' = [run EXCEPT !.pc = IF run.pc = "raising" THEN "raised" ELSE "store",
                          !.tasks = {}]
    /\ UNCHANGED <<req, calc, storeVars>>

\* lines 129-136: the records of the run are upserted, if there are any
Store ==
    /\ run.pc = "store"
    /\ IF run.all_records # <<>>
       THEN \E o \in upsert(file, run.all_records) :
                /\ file' = o.file
                /\ run' = [run EXCEPT !.pc = "done", !.count = o.ret.n]
       ELSE /\ run' = [run EXCEPT !.pc = "done", !.count = 0]
            /\ UNCHANGED file
    /\ UNCHANGED <<pre, op, ret, client, req, calc>>

NextCollect == CollectAll \/ CollectRepoStats \/ ExitClient \/ Store

SpecCollect == Init /\ [][NextCollect]_vars

(* ------------------- collect_all, task by task ------------------------- *)

\* the tasks of the k-th repository, and those that have not come to an end
TasksOf(k) == { t \in run.tasks : t.k = k }

Unfinished == { t \in run.tasks : t.pc # "done" }

\* the event loop runs the tasks while collect_all is suspended at the
\* await of asyncio.gather: from the end of that await to the next gather
\* collect_all does not yield.  The tasks still there when the loop of
\* collect_all is over meet a client being closed and are cancelled by
\* asyncio.run when collect_all returns; that end of theirs is left out,
\* they leave the model with the end of the "async with" block
Running == run.pc = "gather"

\* lines 32-38: collect_repo_stats of the next repository starts the three
\* fetches as tasks of asyncio.gather and awaits them
Gather ==
    /\ run.pc = "loop"
    /\ run.i <= Len(run.repos)
    /\ run' = [run EXCEPT
                  !.pc = "gather",
                  !.tasks = @ \cup { Task(run.i, fetch, "pending", 0, NoExc, NoOutcome) :
                                         fetch \in { "views", "clones", "stats" } }]
    /\ UNCHANGED <<client, req, calc, storeVars>>

\* a task starts: its _request call issues the first HTTP request
TaskStart ==
    /\ Running
    /\ \E t \in run.tasks :
           /\ t.pc = "pending"
           /\ run' = [run EXCEPT !.tasks = (@ \ { t }) \cup { [t EXCEPT !.pc = "awaiting"] }]
    /\ UNCHANGED <<client, req, calc, storeVars>>

\* the request of a task gets its response: the task returns, raises, or
\* backs off.  The three tasks of a gather are made ready together and each
\* runs up to its request before the event loop looks for responses, so no
\* response comes while a task of the same gather has yet to start.  A task
\* of a repository that collect_repo_stats has left already has nobody
\* waiting for it and goes away when it ends
TaskReceive ==
    /\ Running
    /\ \E t \in run.tasks, resp \in TaskResponses :
           /\ t.pc = "awaiting"
           /\ \A u \in TasksOf(t.k) : u.pc # "pending"
           /\ LET h == handle(resp)
                  after == IF h.act = "retry"
                           THEN [t EXCEPT !.pc = "sleeping", !.last_error = h.exc]
                           ELSE [t EXCEPT !.pc = "done", !.attempt = 0,
                                          !.last_error = NoExc,
                                          !.outcome = request_ending_on(resp)]
              IN  run' = [run EXCEPT
                             !.tasks = IF after.pc = "done" /\ t.k # run.i
                                       THEN @ \ { t }
                                       ELSE (@ \ { t }) \cup { after }]
    /\ UNCHANGED <<client, req, calc, storeVars>>

\* the sleep of a task is over: the next pass issues its HTTP request, or
\* the loop is over and last_error is raised
TaskWake ==
    /\ Running
    /\ \E t \in run.tasks :
           /\ t.pc = "sleeping"
           /\ LET after == IF t.attempt + 1 >= default_max_retries
                           THEN [t EXCEPT !.pc = "done", !.attempt = 0,
                                          !.last_error = NoExc,
                                          !.outcome = Raised(t.last_error)]
                           ELSE [t EXCEPT !.pc = "awaiting", !.attempt = @ + 1]
              IN  run' = [run EXCEPT
                             !.tasks = IF after.pc = "done" /\ t.k # run.i
                                       THEN @ \ { t }
                                       ELSE (@ \ { t }) \cup { after }]
    /\ UNCHANGED <<client, req, calc, storeVars>>

\* the outcome of the fetch of the repository being collected
OutcomeOf(fetch) == (CHOOSE t \in TasksOf(run.i) : t.fetch = fetch).outcome

\* lines 38-83: the await of asyncio.gather is over, with the three results
\* once all three tasks have returned, or with the exception of a task that
\* raised, the other tasks being left to run; collect_repo_stats builds
\* the records or catches the GitHubAPIError, and the loop of collect_all
\* goes on
GatherDone ==
    /\ run.pc = "gather"
    /\ \/ \A t \in TasksOf(run.i) : t.pc = "done"
       \/ \E t \in TasksOf(run.i) : t.pc = "done" /\ t.outcome.kind = "raise"
    /\ \E records \in
             IF \E t \in TasksOf(run.i) : t.pc = "done" /\ t.outcome.kind = "raise"
             THEN { IF t.outcome.exc.type \in GitHubAPIErrors
                    THEN Collected(<<>>, t.outcome.exc)
                    ELSE Failed(t.outcome.exc) :
                        t \in { u \in TasksOf(run.i) :
                                   u.pc = "done" /\ u.outcome.kind = "raise" } }
             ELSE { build_records(views_of(OutcomeOf("views").json),
                                  clones_of(OutcomeOf("clones").json),
                                  stats_of(OutcomeOf("stats").json),
                                  run.repos[run.i], now(run.i)) } :
           run' = IF records.kind = "raise"
                  THEN [run EXCEPT !.pc = "raising", !.exc = records.exc,
                                   !.results = Append(@, records),
                                   !.tasks = Unfinished]
                  ELSE [run EXCEPT !.pc = "loop", !.i = @ + 1,
                                   !.all_records = @ \o records.records,
                                   !.results = Append(@, records),
                                   !.tasks = Unfinished]
    /\ UNCHANGED <<client, req, calc, storeVars>>

NextGather ==
    CollectAll \/ Gather \/ TaskStart \/ TaskReceive \/ TaskWake \/ GatherDone
        \/ ExitClient \/ Store

SpecGather == Init /\ [][NextGather]_vars

(* ------------- the record builder and get_releases, alone -------------- *)

\* collect_repo_stats, from the three responses on: views.items and
\* clones.items are any two lists of items
BuildRecords ==
    /\ calc = NoCalc
    /\ \E views \in ItemLists, clones \in ItemLists :
           calc' = Calc("collect_repo_stats", views, clones,
                        build_records(views, clones, RepoStats(1, 4), <<"a", "y">>, "t1"))
    /\ UNCHANGED <<client, req, run, storeVars>>

\* get_releases, from the response on: data is any list of items
GetReleases ==
    /\ calc = NoCalc
    /\ \E data \in ReleaseLists :
           calc' = Calc("get_releases", data, <<>>, Built(get_releases(data)))
    /\ UNCHANGED <<client, req, run, storeVars>>

\* the caller has the result
Forget ==
    /\ calc # NoCalc
    /\ calc' = NoCalc
    /\ UNCHANGED <<client, req, run, storeVars>>

NextFunctions == BuildRecords \/ GetReleases \/ Forget

SpecFunctions == Init /\ [][NextFunctions]_vars

(* ----------------------- vocabulary of the properties ----------------- *)

\* every row a file or a batch of the model can hold
AllRows == { to_dict(r) : r \in Records }

\* how often row occurs in rws
Count(rws, row) == Cardinality({ i \in DOMAIN rws : rws[i] = row })

\* the (date, repo_owner, repo_name) keys that occur in rws
KeysIn(rws) == { <<rws[i].date, rws[i].repo_owner, rws[i].repo_name>> : i \in DOMAIN rws }

\* no two rows of rws have the same (date, repo_owner, repo_name)
UniqueKeys(rws) == Cardinality(KeysIn(rws)) = Len(rws)

\* the rows of rws with the key of row
WithKeyOf(rws, row) ==
    SelectSeq(rws, LAMBDA x : /\ x.date = row.date
                              /\ x.repo_owner = row.repo_owner
                              /\ x.repo_name = row.repo_name)

\* the rows of the batch of the call in progress
BatchRows == [i \in DOMAIN op.new_records |-> to_dict(op.new_records[i])]

Upserted == op.name = "upsert" /\ ret.kind = "int"

(* C1: after any sequence of upsert calls with arbitrary batches, starting *)
(* from an empty or missing store, the persisted dataset has at most one   *)
(* row per (date, repo_owner, repo_name) key.                              *)
C1_KeyUniqueness == UniqueKeys(file.rows)

(* C1, amended: an upsert whose batch has pairwise distinct keys, made on a *)
(* store with at most one row per key, leaves a store with at most one row  *)
(* per key; the empty or missing store the sequence starts from is one.     *)
C1_KeyUniquenessDistinctBatches ==
    /\ (op = Idle /\ pre.rows = <<>>) => UniqueKeys(file.rows)
    /\ (Upserted /\ UniqueKeys(pre.rows) /\ UniqueKeys(BatchRows))
           => UniqueKeys(file.rows)

\* an upsert replaced a stored row and added a new one, all keys distinct
C1_Witness ==
    /\ Upserted
    /\ Len(op.new_records) = 2
    /\ UniqueKeys(BatchRows)
    /\ Len(pre.rows) = 2
    /\ UniqueKeys(pre.rows)
    /\ Cardinality(KeysIn(pre.rows) \cap KeysIn(BatchRows)) = 1
    /\ \E i \in DOMAIN pre.rows : Count(file.rows, pre.rows[i]) = 0
    /\ Len(file.rows) = 3

(* C2: upsert([r1]) followed by upsert([r2]) with the key of r1 leaves     *)
(* exactly one row for that key, equal to r2 in every field, None fields   *)
(* of r2 included (no field-level merge).                                   *)
C2_LastWriteWins ==
    (Upserted /\ Len(op.new_records) = 1)
        => WithKeyOf(file.rows, BatchRows[1]) = <<BatchRows[1]>>

\* r1 had clone counts, r2 has none, and the stored row has none
C2_Witness ==
    /\ Upserted
    /\ Len(op.new_records) = 1
    /\ op.new_records[1].clones_total = None
    /\ Len(WithKeyOf(pre.rows, BatchRows[1])) = 1
    /\ WithKeyOf(pre.rows, BatchRows[1])[1].clones_total # None
    /\ Len(WithKeyOf(file.rows, BatchRows[1])) = 1
    /\ WithKeyOf(file.rows, BatchRows[1])[1].clones_total = None

(* C3: an upsert call interrupted at any point leaves the persisted store  *)
(* either exactly as it was before the call or exactly the fully merged    *)
(* result.                                                                  *)
C3_AllOrNothing ==
    op.name = "upsert_interrupted"
        => \/ file = pre
           \/ file \in { o.file : o \in upsert(pre, op.new_records) }

(* C4: upsert([]) returns 0 and leaves the persisted store unchanged: no   *)
(* write is performed and no file is created.                              *)
C4_EmptyBatchNoOp ==
    (op.name = "upsert" /\ Len(op.new_records) = 0)
        => (ret = RetInt(0) /\ file = pre)

\* upsert([]) was called where no file exists, and none exists afterwards
C4_Witness ==
    /\ op.name = "upsert"
    /\ Len(op.new_records) = 0
    /\ ret.kind = "int"
    /\ ~exists(pre)
    /\ ~exists(file)

(* C5: for a non-empty batch upsert returns the number of records in the   *)
(* batch, on the empty-store path and on the merge path, however many of   *)
(* them replaced rows; and the file then holds every record of the batch.  *)
C5_ReturnsBatchSize ==
    (op.name = "upsert" /\ Len(op.new_records) > 0)
        => /\ ret = RetInt(Len(op.new_records))
           /\ file.state = "intact"
           /\ \A i \in DOMAIN BatchRows :
                  Count(file.rows, BatchRows[i]) >= 1

\* a batch of two on the merge path: one record replaced a row, one is new
C5_Witness ==
    /\ Upserted
    /\ ret.n = 2
    /\ Len(pre.rows) = 1
    /\ Len(file.rows) = 2
    /\ KeysIn(pre.rows) \subseteq KeysIn(BatchRows)

(* C6: after every upsert of a non-empty batch, the first upsert into an   *)
(* empty or missing store included, the persisted rows are in ascending    *)
(* order by (repo_owner, repo_name, date).                                  *)
C6_SortedOnPersist ==
    (Upserted /\ Len(op.new_records) > 0) => is_sorted(file.rows)

(* C7: after upsert(B) on a non-empty store S the persisted rows are the   *)
(* rows of S whose key does not occur in B, each unchanged, together with  *)
(* all rows of B; a row of S goes exactly when its key is a key of B,      *)
(* whether or not its values equal the new ones.                            *)
C7_KeyBasedExclusion ==
    (Upserted /\ Len(op.new_records) > 0 /\ Len(pre.rows) > 0)
        => /\ \A i \in DOMAIN file.rows : file.rows[i] \in AllRows
           /\ \A row \in AllRows :
                  Count(file.rows, row) =
                      Count(BatchRows, row) +
                      ( IF <<row.date, row.repo_owner, row.repo_name>> \in KeysIn(BatchRows)
                        THEN 0
                        ELSE Count(pre.rows, row) )
           /\ file.columns = pre.columns

\* S held a row B replaces with other values and a row B does not touch
C7_Witness ==
    /\ Upserted
    /\ Len(op.new_records) = 1
    /\ Len(pre.rows) = 2
    /\ Len(file.rows) = 2
    /\ Count(pre.rows, BatchRows[1]) = 0
    /\ \E i \in DOMAIN pre.rows :
           /\ Count(file.rows, pre.rows[i]) = 0
           /\ WithKeyOf(pre.rows, BatchRows[1]) = <<pre.rows[i]>>
    /\ \E i \in DOMAIN pre.rows : Count(file.rows, pre.rows[i]) = 1

(* C8: across any sequence of upsert calls the number of persisted rows    *)
(* never decreases from one call to the next, and no key present before an *)
(* upsert is absent after it.                                               *)
C8_MonotonicGrowth ==
    Upserted
        => /\ Len(file.rows) >= Len(pre.rows)
           /\ KeysIn(pre.rows) \subseteq KeysIn(file.rows)

(* C8, amended: an upsert on a store that holds at most one row per key    *)
(* does not decrease the number of persisted rows; and no upsert removes a *)
(* key.                                                                     *)
C8_MonotonicGrowthUniqueStore ==
    Upserted
        => /\ UniqueKeys(pre.rows) => Len(file.rows) >= Len(pre.rows)
           /\ KeysIn(pre.rows) \subseteq KeysIn(file.rows)

\* a batch that replaces one stored row and leaves another of the same
\* repository in place: the row count stays, the keys stay
C8_Witness ==
    /\ Upserted
    /\ Len(op.new_records) = 1
    /\ UniqueKeys(pre.rows)
    /\ Len(pre.rows) = 2
    /\ pre.rows[1].repo_name = pre.rows[2].repo_name
    /\ Count(pre.rows, BatchRows[1]) = 0
    /\ Len(file.rows) = 2
    /\ KeysIn(file.rows) = KeysIn(pre.rows)

\* an optional str argument was given: it is neither None nor the empty string
Given(arg) == arg # NoArg /\ arg # ""

\* row passes the filters of the get_stats call in progress
Qualifies(row) ==
    /\ Given(op.repo_name) => row.repo_name = op.repo_name
    /\ Given(op.start_date) => to_date(op.start_date) <= row.date
    /\ Given(op.end_date) => row.date <= to_date(op.end_date)

(* C9: the store never signals an error for "no data": read() without a    *)
(* backing file returns an empty dataset with all 10 schema columns, and   *)
(* get_stats, with any filters, returns an empty result on a missing or    *)
(* empty store and when no row matches.                                    *)
C9_NoDataIsNotAnError ==
    /\ (op.name = "read" /\ ~exists(pre))
           => /\ ret.kind = "df"
              /\ Len(ret.rows) = 0
              /\ Cardinality({ ret.columns[i] : i \in DOMAIN ret.columns }) = 10
              /\ ret.columns = STATS_SCHEMA
    /\ (op.name = "get_stats"
            /\ \A i \in DOMAIN pre.rows : ~Qualifies(pre.rows[i]))
           => /\ ret.kind = "df"
              /\ Len(ret.rows) = 0

\* read() where no file exists
C9_Witness ==
    /\ op.name = "read"
    /\ ~exists(pre)
    /\ ret.kind = "df"
    /\ Len(ret.columns) = 10

(* C10: get_stats(repo_name, start_date, end_date) returns exactly the     *)
(* stored rows whose repo_name equals repo_name (when given) and whose     *)
(* date d has start_date <= d (when given) and d <= end_date (when given), *)
(* both bounds inclusive, in ascending (repo_owner, repo_name, date) order.*)
C10_GetStatsFilters ==
    op.name = "get_stats"
        => /\ ret.kind = "df"
           /\ \A i \in DOMAIN ret.rows : ret.rows[i] \in AllRows
           /\ \A row \in AllRows :
                  Count(ret.rows, row) =
                      ( IF Qualifies(row) THEN Count(file.rows, row) ELSE 0 )
           /\ \A i, j \in DOMAIN ret.rows :
                  i < j =>
                      \/ StrRank(ret.rows[i].repo_owner) < StrRank(ret.rows[j].repo_owner)
                      \/ /\ ret.rows[i].repo_owner = ret.rows[j].repo_owner
                         /\ StrRank(ret.rows[i].repo_name) < StrRank(ret.rows[j].repo_name)
                      \/ /\ ret.rows[i].repo_owner = ret.rows[j].repo_owner
                         /\ ret.rows[i].repo_name = ret.rows[j].repo_name
                         /\ ret.rows[i].date <= ret.rows[j].date

\* all three filters given, start_date = end_date: a stored row dated on the
\* bound is returned, a row of another repository and a row of another day
\* are not
C10_Witness ==
    /\ op.name = "get_stats"
    /\ Given(op.repo_name)
    /\ Given(op.start_date)
    /\ op.end_date = op.start_date
    /\ Len(file.rows) = 3
    /\ Len(ret.rows) = 1
    /\ DateStr[ret.rows[1].date] = op.start_date
    /\ \E i \in DOMAIN file.rows : file.rows[i].repo_name # op.repo_name
    /\ \E i \in DOMAIN file.rows :
           /\ file.rows[i].repo_name = op.repo_name
           /\ file.rows[i].date # ret.rows[1].date

Transient(resp) == resp.kind = "RequestError" \/ resp.status_code >= 500

AllTransient(log) == \A i \in DOMAIN log : Transient(log[i])

\* a response with a status that is neither 200 nor retried
NonRetryable(resp) ==
    resp.kind = "response" /\ resp.status_code # 200 /\ resp.status_code < 500

Last(log) == log[Len(log)]

Front(log) == SubSeq(log, 1, Len(log) - 1)

\* the request has received at least one response or network error
Answered == req.pc # "idle" /\ Len(req.log) > 0

\* C12: Retry until success. When k transient failures with k < max_retries
\* are followed by a 200, the call returns the JSON of that 200 and has
\* issued exactly k + 1 HTTP requests; and the call does not give up while
\* fewer than max_retries transient failures have been seen.
C12_RetryUntilSuccess ==
    /\ (Answered /\ Last(req.log).status_code = 200 /\ AllTransient(Front(req.log)))
           => /\ Len(req.log) - 1 < req.max_retries
              /\ req.pc = "done"
              /\ req.outcome = Returned(Last(req.log).json)
              /\ req.requests = Len(req.log)
    /\ (Answered /\ AllTransient(req.log) /\ Len(req.log) < req.max_retries)
           => req.pc \in { "sleeping", "loop", "awaiting" }

\* 500, then a network error, then 200 with payload j2: returned after three
\* requests
C12_Witness ==
    /\ req.pc = "done"
    /\ req.max_retries = 3
    /\ Len(req.log) = 3
    /\ req.log[1].status_code = 500
    /\ req.log[2].kind = "RequestError"
    /\ req.log[3].status_code = 200
    /\ req.outcome = Returned("j2")
    /\ req.requests = 3

\* C13: Fail fast. A response with a status below 500 other than 200 ends the
\* call with an exception at once: no HTTP request and no delay follows it,
\* on the first attempt and after earlier transient failures alike.
C13_FailFast ==
    (Answered /\ NonRetryable(Last(req.log)))
        => /\ req.pc = "done"
           /\ req.outcome.kind = "raise"
           /\ req.requests = Len(req.log)
           /\ Len(req.delays) = Len(req.log) - 1
           /\ AllTransient(Front(req.log))

\* a 404 after a 503: two requests, one delay, NotFoundError
C13_Witness ==
    /\ req.pc = "done"
    /\ Len(req.log) = 2
    /\ req.log[1].status_code = 503
    /\ req.log[2].status_code = 404
    /\ req.outcome.kind = "raise"
    /\ req.outcome.exc.type = "NotFoundError"
    /\ req.requests = 2
    /\ req.delays = <<1>>

\* the exception class the classification of C14 gives a response
ClassOf(resp) ==
    IF resp.status_code = 401 THEN "AuthenticationError"
    ELSE IF resp.status_code = 403
         THEN IF resp.remaining = "0" THEN "RateLimitError" ELSE "AuthenticationError"
    ELSE IF resp.status_code = 404 THEN "NotFoundError"
    ELSE "GitHubAPIError"

\* C14: Classification of the response status. 200 gives the payload, 401
\* AuthenticationError, 403 RateLimitError exactly when X-RateLimit-Remaining
\* is "0" and AuthenticationError otherwise, 404 NotFoundError, any other
\* status below 500 the generic GitHubAPIError with status code and body;
\* only statuses >= 500 are retried.
C14_Classification ==
    (Answered /\ Last(req.log).kind = "response")
        => LET resp == Last(req.log) IN
           /\ resp.status_code = 200 => req.outcome = Returned(resp.json)
           /\ NonRetryable(resp)
                  => /\ req.outcome.kind = "raise"
                     /\ req.outcome.exc.type = ClassOf(resp)
                     /\ (resp.status_code \notin { 401, 403, 404 })
                            => /\ req.outcome.exc.status_code = resp.status_code
                               /\ req.outcome.exc.text = resp.text
           /\ AllTransient(Front(req.log))
           /\ (Len(req.delays) = Len(req.log)) <=> (resp.status_code >= 500)

\* the seconds from 1970-01-01T00:00:00Z to the UTC date and time t
timestamp(t) ==
    LET y == IF t.month <= 2 THEN t.year - 1 ELSE t.year
        era == y \div 400
        yoe == y - era * 400
        mp == IF t.month > 2 THEN t.month - 3 ELSE t.month + 9
        doy == (153 * mp + 2) \div 5 + t.day - 1
        doe == yoe * 365 + yoe \div 4 - yoe \div 100 + doy
    IN  (era * 146097 + doe - 719468) * 86400
            + t.hour * 3600 + t.minute * 60 + t.second

\* t is a date and time of the calendar
IsDateTime(t) ==
    /\ t.month \in 1..12
    /\ t.day \in 1..31
    /\ t.hour \in 0..23
    /\ t.minute \in 0..59
    /\ t.second \in 0..59

\* C15: A rate-limit error carries a reset time. For a 403 response with
\* X-RateLimit-Remaining "0" whose X-RateLimit-Reset is an integer (0 when the
\* header is missing), the RateLimitError raised has a reset_at that is not
\* None and is the UTC instant that many seconds after the epoch; 1704067200
\* gives 2024-01-01T00:00:00Z. No RateLimitError is without a reset_at.
C15_ResetTime ==
    /\ (Answered /\ Last(req.log).status_code = 403 /\ Last(req.log).remaining = "0"
            /\ headers_get(Last(req.log).reset, "0") \in DOMAIN IntValue)
           => LET reset_at == req.outcome.exc.reset_at IN
              /\ req.outcome.kind = "raise"
              /\ req.outcome.exc.type = "RateLimitError"
              /\ reset_at # NoTime
              /\ IsDateTime(reset_at)
              /\ timestamp(reset_at) = IntValue[headers_get(Last(req.log).reset, "0")]
              /\ Last(req.log).reset = "1704067200"
                     => reset_at = [year |-> 2024, month |-> 1, day |-> 1,
                                    hour |-> 0, minute |-> 0, second |-> 0]
    /\ req.outcome.exc.type = "RateLimitError" => req.outcome.exc.reset_at # NoTime

\* 403 with X-RateLimit-Remaining 0 and X-RateLimit-Reset 1704153599:
\* RateLimitError with reset_at 2024-01-01T23:59:59Z
C15_Witness ==
    /\ req.pc = "done"
    /\ Len(req.log) = 1
    /\ req.log[1].status_code = 403
    /\ req.log[1].remaining = "0"
    /\ req.log[1].reset = "1704153599"
    /\ req.outcome.exc.type = "RateLimitError"
    /\ req.outcome.exc.reset_at = [year |-> 2024, month |-> 1, day |-> 1,
                                   hour |-> 23, minute |-> 59, second |-> 59]

\* the GitHubAPIError that describes a transient failure
ErrorOf(resp) ==
    IF resp.kind = "RequestError"
    THEN Exc("GitHubAPIError", "Request failed", 0, resp.text, NoTime)
    ELSE Exc("GitHubAPIError", "Server error", resp.status_code, resp.text, NoTime)

\* C16: Bounded retry, last error surfaced. A call never issues more than
\* max_retries HTTP requests, and a call that has been started comes to its
\* end; when all max_retries attempts fail transiently it raises the
\* GitHubAPIError of the failure of the final attempt.
C16_Bounded ==
    /\ req.requests <= req.max_retries
    /\ Len(req.log) <= req.requests
    /\ (req.pc = "done" /\ req.max_retries > 0 /\ Len(req.log) = req.max_retries
            /\ AllTransient(req.log))
           => req.outcome = Raised(ErrorOf(Last(req.log)))

C16_Terminates == (req.pc # "idle") ~> (req.pc = "done")

C16_BoundedRetry == []C16_Bounded /\ C16_Terminates

\* three attempts failed with 500, 503 and a network error: the error raised
\* is the one of the network error
C16_Witness ==
    /\ req.pc = "done"
    /\ req.max_retries = 3
    /\ Len(req.log) = 3
    /\ req.log[1].status_code = 500
    /\ req.log[2].status_code = 503
    /\ req.log[3].kind = "RequestError"
    /\ req.outcome = Raised(Exc("GitHubAPIError", "Request failed", 0, "timeout", NoTime))
    /\ req.requests = 3

\* C19: Scoped connection lifetime. An HTTP request is issued only while the
\* client is open; a call made before the scope is entered or after it is
\* left ends in an exception with no HTTP request issued; leaving the scope
\* closes the connection, after a call that returned and after one that raised.
C19_IssuedOnlyWhileOpen ==
    /\ req'.requests > req.requests => client = "open"
    /\ (req.pc # "done" /\ req'.pc = "done" /\ client # "open")
           => req'.outcome.kind = "raise" /\ req'.requests = 0
    /\ (client = "open" /\ client' # "open") => client' = "closed"

C19_ExitCloses ==
    (client = "open" /\ req.pc \in { "idle", "done" }) => ENABLED Exit

C19_ScopedLifetime == [][C19_IssuedOnlyWhileOpen]_vars /\ []C19_ExitCloses

\* a call made after the scope was left has ended in an exception without
\* an HTTP request
C19_Witness ==
    /\ client = "closed"
    /\ req.pc = "done"
    /\ req.max_retries = 3
    /\ req.requests = 0
    /\ req.outcome.kind = "raise"
    /\ req.outcome.exc.type = "RuntimeError"

\* C22: Backoff schedule. The delay after the attempt with zero-based index
\* a is 2^a, and delays occur only between attempts: a call that has made n
\* attempts and is over has slept n - 1 times, so a call that exhausts a
\* budget of 3 has waited 1 + 2 and raises right after the last attempt.
C22_BackoffSchedule ==
    /\ \A a \in 0..(Len(req.delays) - 1) : req.delays[a + 1] = 2 ^ a
    /\ Len(req.delays) <= req.requests
    /\ (req.pc = "done" /\ req.requests > 0) => Len(req.delays) = req.requests - 1

\* C25: Every failure of a request made with the connection open is of the
\* GitHubAPIError family, whatever the responses were: a 403 rate-limit
\* response with a missing or malformed reset header and network failures on
\* every attempt included.
C25_OnlyGitHubAPIErrors ==
    (Answered /\ req.outcome.kind = "raise")
        => req.outcome.exc.type \in GitHubAPIErrors

(* ------------------ properties of the record builder ------------------- *)

\* the dates the items of a response are about
DatesOf(items) ==
    { d \in Days : \E i \in DOMAIN items : items[i].timestamp = Timestamp[d] }

\* the last item of a response that is about date d
LastOn(items, d) ==
    items[CHOOSE i \in DOMAIN items :
              /\ items[i].timestamp = Timestamp[d]
              /\ \A j \in DOMAIN items : items[j].timestamp = Timestamp[d] => j <= i]

\* the records were built: no item lacked its timestamp
RecordsBuilt == calc.fn = "collect_repo_stats" /\ calc.out.kind = "records"

\* C17: Record builder merge. The records built from a views response and a
\* clones response are exactly one per date in the union of the view dates
\* and the clone dates; the view fields of a record are populated iff its
\* date is a view date, its clone fields iff its date is a clone date, the
\* other fields being None; the populated fields are those of the response.
C17_RecordBuilderMerge ==
    RecordsBuilt
        => LET views == calc.a
               clones == calc.b
               records == calc.out.records
           IN  /\ { records[i].record_date : i \in DOMAIN records }
                      = DatesOf(views) \cup DatesOf(clones)
               /\ Len(records) = Cardinality(DatesOf(views) \cup DatesOf(clones))
               /\ \A i \in DOMAIN records :
                      LET r == records[i] IN
                      /\ r.views_total # None <=> r.record_date \in DatesOf(views)
                      /\ r.views_unique # None <=> r.record_date \in DatesOf(views)
                      /\ r.clones_total # None <=> r.record_date \in DatesOf(clones)
                      /\ r.clones_unique # None <=> r.record_date \in DatesOf(clones)
                      /\ r.record_date \in DatesOf(views)
                             => /\ r.views_total = get_int(LastOn(views, r.record_date).count, 0)
                                /\ r.views_unique = get_int(LastOn(views, r.record_date).uniques, 0)
                      /\ r.record_date \in DatesOf(clones)
                             => /\ r.clones_total = get_int(LastOn(clones, r.record_date).count, 0)
                                /\ r.clones_unique = get_int(LastOn(clones, r.record_date).uniques, 0)
                      /\ <<r.repo_owner, r.repo_name>> = <<"a", "y">>

\* views of days 1 and 2, clones of days 2 and 3: three records, views only,
\* both, clones only
C17_Witness ==
    /\ RecordsBuilt
    /\ DatesOf(calc.a) = { 1, 2 }
    /\ DatesOf(calc.b) = { 2, 3 }
    /\ Len(calc.out.records) = 3
    /\ \E i, j, k \in DOMAIN calc.out.records :
           /\ calc.out.records[i].record_date = 1
           /\ calc.out.records[i].views_total = 7
           /\ calc.out.records[i].clones_total = None
           /\ calc.out.records[j].record_date = 2
           /\ calc.out.records[j].views_total = 7
           /\ calc.out.records[j].clones_total = 7
           /\ calc.out.records[k].record_date = 3
           /\ calc.out.records[k].views_total = None
           /\ calc.out.records[k].clones_total = 7

(* --------------------- properties of get_releases ---------------------- *)

\* the items of a releases response that have a publish timestamp
Published(data) == SelectSeq(data, LAMBDA item : item.published_at \notin { NoArg, "" })

\* the day d for which the timestamp is that of date(2024, 1, d)
DayOf(ts) == CHOOSE d \in Days : Timestamp[d] = ts

\* C20: get_releases returns one Release per item of the response that has a
\* publish timestamp, in the order of the response, made of the tag, the date
\* of the publish timestamp and the name, a missing name being ""; items
\* without publish timestamp give nothing; the result is never longer than
\* the response.
C20_GetReleases ==
    calc.fn = "get_releases"
        => LET data == calc.a
               releases == calc.out.records
           IN  /\ Len(releases) = Len(Published(data))
               /\ Len(releases) <= Len(data)
               /\ \A i \in DOMAIN releases :
                      LET item == Published(data)[i] IN
                      /\ releases[i].tag_name = (IF item.tag_name = NoArg THEN "" ELSE item.tag_name)
                      /\ releases[i].published_at = DayOf(item.published_at)
                      /\ releases[i].name = (IF item.name = NoArg THEN "" ELSE item.name)

\* a draft between two published releases, the second one without a name
C20_Witness ==
    /\ calc.fn = "get_releases"
    /\ Len(calc.a) = 2
    /\ calc.a[1].published_at = NoArg
    /\ calc.a[2].published_at = Timestamp[2]
    /\ calc.a[2].name = NoArg
    /\ calc.out.records = <<[tag_name |-> "v1", published_at |-> 2, name |-> ""]>>

(* ------------------- properties of the collection run ------------------ *)

\* the run has come to its end, by return or by exception
RunOver == run.pc \in { "done", "raised" }

\* the rows of the repository in a list of rows or records
OfRepo(rws, repo) ==
    SelectSeq(rws, LAMBDA row : <<row.repo_owner, row.repo_name>> = repo)

\* the fetch of the k-th repository of the run failed
FetchFailed(k) == run.results[k].exc # NoExc

\* C18: Failure isolation across repositories. A repository whose fetch
\* failed contributes no record; every repository of the run is collected
\* whatever happened to the ones before it; and when the run is over the
\* records of every repository whose fetch succeeded are in the store.
C18_FailureIsolation ==
    /\ \A k \in DOMAIN run.results :
           FetchFailed(k)
               => /\ run.results[k].records = <<>>
                  /\ OfRepo(run.all_records, run.repos[k]) = <<>>
    /\ RunOver
           => /\ Len(run.results) = Len(run.repos)
              /\ \A k \in DOMAIN run.results :
                     ~FetchFailed(k)
                         => \A i \in DOMAIN run.results[k].records :
                                \E j \in DOMAIN file.rows :
                                    file.rows[j] = to_dict(run.results[k].records[i])

(* ------------------ algebraic properties of upsert --------------------- *)

\* rws1 and rws2 hold the same rows, each as often in the one as in the other
SameRows(rws1, rws2) == \A row \in AllRows : Count(rws1, row) = Count(rws2, row)

\* C26: Upsert idempotence. After upsert(B) of a batch B with pairwise
\* distinct keys, on any store, a second upsert(B) returns the same count and
\* leaves a store with the same rows.
C26_Idempotence ==
    (Upserted /\ UniqueKeys(BatchRows))
        => \A again \in upsert(file, op.new_records) :
               /\ again.ret = ret
               /\ SameRows(again.file.rows, file.rows)
               /\ again.file.state = file.state

\* a batch of two records was written out of order to a missing store; the
\* second upsert of it puts the same rows in sorted order
C26_Witness ==
    /\ Upserted
    /\ UniqueKeys(BatchRows)
    /\ Len(BatchRows) = 2
    /\ ~exists(pre)
    /\ ~is_sorted(file.rows)
    /\ \E again \in upsert(file, op.new_records) : again.file.rows # file.rows

\* the stores that can be left by the calls upsert(first) then upsert(second)
\* made on the store f
UpsertBoth(f, first, second) ==
    UNION { { o2.file : o2 \in upsert(o1.file, second) } : o1 \in upsert(f, first) }

\* the stores that can be left by one upsert call on the store f
UpsertOnce(f, new_records) == { o.file : o \in upsert(f, new_records) }

\* the key of a record
KeyOf(r) == <<r.record_date, r.repo_owner, r.repo_name>>

\* batches that are not empty, have pairwise distinct keys, and share no key
DisjointBatches(A, B) ==
    /\ A # <<>>
    /\ B # <<>>
    /\ \A i, j \in DOMAIN A : i # j => KeyOf(A[i]) # KeyOf(A[j])
    /\ \A i, j \in DOMAIN B : i # j => KeyOf(B[i]) # KeyOf(B[j])
    /\ \A i \in DOMAIN A, j \in DOMAIN B : KeyOf(A[i]) # KeyOf(B[j])

\* C24: Order independence of storage. For the batch A just upserted on the
\* store pre and any batch B sharing no key with it, upsert(A) then upsert(B),
\* upsert(B) then upsert(A), and one upsert of A and B concatenated either
\* way, all made on pre, leave the same rows in the same order.
C24_OrderIndependence ==
    Upserted
        => \A B \in Batches :
               DisjointBatches(op.new_records, B)
                   => LET A == op.new_records IN
                      \E f \in UpsertOnce(file, B) :
                          /\ UpsertOnce(file, B) = { f }
                          /\ UpsertBoth(pre, B, A) = { f }
                          /\ UpsertOnce(pre, A \o B) = { f }
                          /\ UpsertOnce(pre, B \o A) = { f }

(* ---------------------- properties of the snapshot --------------------- *)

\* C23: Snapshot sharing. All records built for one repository in one run
\* carry the forks_count and the stars_count of that run's repository
\* response and one and the same collected_at, the records of view days and
\* of clone-only days alike.
C23_SnapshotSharing ==
    \A k \in DOMAIN run.results :
        ~FetchFailed(k)
            => LET records == run.results[k].records
                   stats == stats_of(run.fetched[k].stats.json)
               IN  \A i \in DOMAIN records :
                       /\ records[i].forks_count = stats.forks_count
                       /\ records[i].stars_count = stats.stargazers_count
                       /\ records[i].collected_at = records[1].collected_at
                       /\ records[i].collected_at = now(k)

\* the second repository of a run got a view day and a clone-only day, with
\* 1 fork and 4 stars
C23_Witness ==
    /\ Len(run.results) = 2
    /\ ~FetchFailed(2)
    /\ Len(run.results[2].records) = 2
    /\ run.results[2].records[1].clones_total = None
    /\ run.results[2].records[1].views_total # None
    /\ run.results[2].records[2].views_total = None
    /\ run.results[2].records[2].clones_total # None
    /\ run.results[2].records[2].forks_count = 1
    /\ run.results[2].records[2].stars_count = 4
    /\ run.results[2].records[2].collected_at = "t2"

(* ------------------- properties of the task schedule ------------------- *)

\* C21: No inter-repository parallelism. At every moment of a run the
\* request tasks that have not come to an end, those backing off included,
\* are all of one repository: no task of repository i + 1 exists while a
\* task of repository i is unfinished.
C21_OneRepositoryAtATime ==
    \A t, u \in Unfinished : t.k = u.k

====
